---- MODULE Spec2Model ----
(***************************************************************************)
(* The snake engine of src/unnamed/part_000 (component ClassicSnakeGame):  *)
(* the timer tick (moveSnake), the key handler (handleKeyPress), the reset *)
(* (resetGame), the deferred food re-roll that reset schedules, and the    *)
(* level effect.                                                           *)
(*                                                                         *)
(* One action is one callback together with the render it causes and the   *)
(* effects of that render (the level effect, the directionRef effect).     *)
(* Math.random is a nondeterministic choice of a grid cell.                *)
(***************************************************************************)
EXTENDS Integers, Sequences, FiniteSets, TLC

\* ------------------------------------------------------------ bounds
\* The grid and the retry budget are scaled down (the source has
\* GRID_SIZE = 30 and MAX_FOOD_ATTEMPTS = 100) so that full boards and
\* exhausted budgets are reachable.
GRID_SIZE == 3

MAX_FOOD_ATTEMPTS == 2

\* Key presses the history records between two ticks; further presses are
\* handled all the same and the history says only that there were more.
MaxKeys == 1

\* ------------------------------------------------------------ constants
SCORE_PER_LEVEL == 5

MAX_LEVEL == 10

BASE_SPEED == 200

SPEED_DECREMENT == 15

MIN_SPEED == 50

\* ------------------------------------------------------------ values
Pos(x, y) == [x |-> x, y |-> y]

Cells == {Pos(x, y) : x \in 0..(GRID_SIZE - 1), y \in 0..(GRID_SIZE - 1)}

Sentinel == Pos(-1, -1)

Directions == {"UP", "DOWN", "LEFT", "RIGHT"}

Null == "null"

Keys == {"ArrowUp", "ArrowDown", "ArrowLeft", "ArrowRight", "Other"}

INITIAL_SNAKE == <<Pos(GRID_SIZE \div 2, GRID_SIZE \div 2)>>

INITIAL_DIRECTION == "RIGHT"

VARIABLES
  snake,              \* useState snake: head first
  food,               \* useState food
  direction,          \* useState direction
  directionRef,       \* directionRef.current
  queuedDirectionRef, \* queuedDirectionRef.current, Null when null
  gameOver,           \* useState gameOver
  level,              \* useState level
  intervalDelay,      \* useState intervalDelay
  timers,             \* number of pending setTimeout re-rolls
  keys,               \* history: the keys pressed since the last tick that ran
  last                \* history: the last callback and what it did

vars == <<snake, food, direction, directionRef, queuedDirectionRef, gameOver,
          level, intervalDelay, timers, keys, last>>

score == Len(snake) - 1

\* ------------------------------------------------------------ helpers
Min(a, b) == IF a < b THEN a ELSE b

Max(a, b) == IF a > b THEN a ELSE b

Range(s) == {s[i] : i \in 1..Len(s)}

\* Array.prototype.some with the cell equality of the source.
OnSnake(pos, snakeSegments) ==
  \E i \in 1..Len(snakeSegments) :
    snakeSegments[i].x = pos.x /\ snakeSegments[i].y = pos.y

\* prevSnake.slice(0, -1)
SliceButLast(s) == SubSeq(s, 1, Len(s) - 1)

\* Math.floor(Math.random() * (GRID_SIZE + 1)): one cell past the far walls.
generateRandomPosition_OffByOne ==
  {Pos(x, y) : x \in 0..GRID_SIZE, y \in 0..GRID_SIZE}

generateRandomPosition == Cells

\* checkCollision with the far walls one cell too far (> for >=).
checkCollision_OffByOne(pos, snakeSegments) ==
  \/ pos.x < 0
  \/ pos.x > GRID_SIZE
  \/ pos.y < 0
  \/ pos.y > GRID_SIZE
  \/ OnSnake(pos, snakeSegments)

\* checkCollision with the near walls one cell too near (<= for <).
checkCollision_NearWall(pos, snakeSegments) ==
  \/ pos.x <= 0
  \/ pos.x >= GRID_SIZE
  \/ pos.y <= 0
  \/ pos.y >= GRID_SIZE
  \/ OnSnake(pos, snakeSegments)

\* checkCollision without the tests of the near walls.
checkCollision_NoNearWall(pos, snakeSegments) ==
  \/ pos.x >= GRID_SIZE
  \/ pos.y >= GRID_SIZE
  \/ OnSnake(pos, snakeSegments)

checkCollision(pos, snakeSegments) ==
  \/ pos.x < 0
  \/ pos.x >= GRID_SIZE
  \/ pos.y < 0
  \/ pos.y >= GRID_SIZE
  \/ OnSnake(pos, snakeSegments)

\* The switch of moveSnake with the case RIGHT changing y as well.
MoveHead_Diagonal(head, dir) ==
  CASE dir = "UP" -> Pos(head.x, head.y - 1)
    [] dir = "DOWN" -> Pos(head.x, head.y + 1)
    [] dir = "LEFT" -> Pos(head.x - 1, head.y)
    [] dir = "RIGHT" -> Pos(head.x + 1, head.y + 1)

\* The switch of moveSnake with the cases LEFT and RIGHT exchanged.
MoveHead_Mirrored(head, dir) ==
  CASE dir = "UP" -> Pos(head.x, head.y - 1)
    [] dir = "DOWN" -> Pos(head.x, head.y + 1)
    [] dir = "LEFT" -> Pos(head.x + 1, head.y)
    [] dir = "RIGHT" -> Pos(head.x - 1, head.y)

\* The switch of moveSnake on directionRef.current.
MoveHead(head, dir) ==
  CASE dir = "UP" -> Pos(head.x, head.y - 1)
    [] dir = "DOWN" -> Pos(head.x, head.y + 1)
    [] dir = "LEFT" -> Pos(head.x - 1, head.y)
    [] dir = "RIGHT" -> Pos(head.x + 1, head.y)

WillEatFood(head, f) == head.x = f.x /\ head.y = f.y

\* The whole previous body checked in every tick.
SnakeBodyToCheck_Whole(willEatFood, prevSnake) == prevSnake

SnakeBodyToCheck(willEatFood, prevSnake) ==
  IF willEatFood THEN prevSnake ELSE SliceButLast(prevSnake)

\* The loop with one retry too many (<= for <).
RECURSIVE FoodLoop_OneMore(_, _, _)
FoodLoop_OneMore(newSnake, newFood, attempts) ==
  IF OnSnake(newFood, newSnake) /\ attempts <= MAX_FOOD_ATTEMPTS
  THEN UNION {FoodLoop_OneMore(newSnake, d, attempts + 1) :
                d \in {Pos(x, y) : x \in 0..(GRID_SIZE - 1), y \in 0..(GRID_SIZE - 1)}}
  ELSE {[food |-> newFood, attempts |-> attempts]}

\* The while loop shared by moveSnake and resetGame: every result
\* [food, attempts] the loop can end with, entered with newFood already drawn
\* and attempts retries made.
RECURSIVE FoodLoop(_, _, _)
FoodLoop(newSnake, newFood, attempts) ==
  IF OnSnake(newFood, newSnake) /\ attempts < MAX_FOOD_ATTEMPTS
  THEN UNION {FoodLoop(newSnake, d, attempts + 1) : d \in generateRandomPosition}
  ELSE {[food |-> newFood, attempts |-> attempts]}

\* let newFood = generateRandomPosition(); let attempts = 0; while ...
PlaceFood(newSnake) ==
  UNION {FoodLoop(newSnake, d, 0) : d \in generateRandomPosition}

\* The fallback test of resetGame.
ResetFallback(attempts) == attempts >= MAX_FOOD_ATTEMPTS

\* calculateLevel without the Math.min(MAX_LEVEL, ...) clamp.
calculateLevel_Unclamped(s) == s \div SCORE_PER_LEVEL + 1

calculateLevel(s) == Min(MAX_LEVEL, (s \div SCORE_PER_LEVEL) + 1)

\* calculateSpeed adding the decrement instead of subtracting it.
calculateSpeed_Increasing(l) ==
  Max(MIN_SPEED, BASE_SPEED + (l - 1) * SPEED_DECREMENT)

calculateSpeed(l) == Max(MIN_SPEED, BASE_SPEED - (l - 1) * SPEED_DECREMENT)

\* The level effect computing the interval from the level it replaces.
LevelEffect_StaleSpeed(s, lvl, delay) ==
  LET newLevel == calculateLevel(s)
  IN IF newLevel # lvl
     THEN [level |-> newLevel, intervalDelay |-> calculateSpeed(lvl)]
     ELSE [level |-> lvl, intervalDelay |-> delay]

\* The level effect, run by the render that follows a change of score or level.
LevelEffect(s, lvl, delay) ==
  LET newLevel == calculateLevel(s)
  IN IF newLevel # lvl
     THEN [level |-> newLevel, intervalDelay |-> calculateSpeed(newLevel)]
     ELSE [level |-> lvl, intervalDelay |-> delay]

\* handleKeyPress without the test against the current direction.
NewDirection_NoTest(key, currentDirection) ==
  CASE key = "ArrowUp" -> "UP"
    [] key = "ArrowDown" -> "DOWN"
    [] key = "ArrowLeft" -> "LEFT"
    [] key = "ArrowRight" -> "RIGHT"
    [] OTHER -> Null

\* The switch of handleKeyPress: the new direction, Null when there is none.
NewDirection(key, currentDirection) ==
  CASE key = "ArrowUp" -> IF currentDirection # "DOWN" THEN "UP" ELSE Null
    [] key = "ArrowDown" -> IF currentDirection # "UP" THEN "DOWN" ELSE Null
    [] key = "ArrowLeft" -> IF currentDirection # "RIGHT" THEN "LEFT" ELSE Null
    [] key = "ArrowRight" -> IF currentDirection # "LEFT" THEN "RIGHT" ELSE Null
    [] OTHER -> Null

\* ------------------------------------------------------------ history
\* op: the callback; result: what a tick did; attempts, draw: the retries and
\* the last cell drawn by the food placement of the callback; setFoodCalls:
\* the calls of setFood it made; window: for a tick that ran, the keys pressed
\* between the previous tick and this one; vacated: the cell a move popped,
\* and for a re-roll the food it replaced.
Log(op, result, attempts, draw, setFoodCalls, window, vacated) ==
  [op |-> op, result |-> result, attempts |-> attempts, draw |-> draw,
   setFoodCalls |-> setFoodCalls, window |-> window, vacated |-> vacated]

\* The history of keys once more than MaxKeys were pressed since the last tick.
Many == <<"many">>

Record(ks, key) == IF ks # Many /\ Len(ks) < MaxKeys THEN Append(ks, key) ELSE Many

\* ------------------------------------------------------------ state machine
Init ==
  /\ snake = INITIAL_SNAKE
  /\ food \in generateRandomPosition
  /\ direction = INITIAL_DIRECTION
  /\ directionRef = INITIAL_DIRECTION
  /\ queuedDirectionRef = Null
  /\ gameOver = FALSE
  /\ level = 1
  /\ intervalDelay = BASE_SPEED
  /\ timers = 0
  /\ keys = <<>>
  /\ last = Log("init", "-", 0, Sentinel, 0, <<>>, Sentinel)

\* moveSnake without the early return.
EarlyReturn_Never(over) == FALSE

\* if (gameOver) return;
EarlyReturn(over) == over

\* moveSnake leaving the queued direction aside.
Committed_KeepCurrent(queued, current) == current

\* The direction moveSnake commits: the queued one when there is one.
Committed(queued, current) == IF queued # Null THEN queued ELSE current

\* The updater returning the body grown by the colliding head.
CollisionSnake_Grown(prevSnake, head) == <<head>> \o prevSnake

\* The updater returning the body with the colliding head merged in.
CollisionSnake_Merged(prevSnake, head) == <<head>> \o SliceButLast(prevSnake)

\* The value the updater returns on a collision.
CollisionSnake(prevSnake, head) == prevSnake

\* The updater never popping the tail.
MovedSnake_NeverPop(newSnake, willEatFood) == newSnake

\* The updater popping the tail in every move.
MovedSnake_AlwaysPop(newSnake, willEatFood) == SliceButLast(newSnake)

\* The value the updater returns otherwise: newSnake, popped unless it ate.
MovedSnake(newSnake, willEatFood) ==
  IF willEatFood THEN newSnake ELSE SliceButLast(newSnake)

\* moveSnake called while gameOver: the early return.
TickOver ==
  /\ EarlyReturn(gameOver)
  /\ last' = Log("tick", "noop", 0, Sentinel, 0, <<>>, Sentinel)
  /\ UNCHANGED <<snake, food, direction, directionRef, queuedDirectionRef,
                 gameOver, level, intervalDelay, timers, keys>>

\* moveSnake past the early return, with the render and the effects it causes.
MoveSnake ==
  /\ ~EarlyReturn(gameOver)
  /\ directionRef' = Committed(queuedDirectionRef, directionRef)
  /\ direction' = Committed(queuedDirectionRef, directionRef)
  /\ queuedDirectionRef' = Null
  /\ keys' = <<>>
  /\ timers' = timers
  /\ LET prevSnake == snake
         head == MoveHead(prevSnake[1], directionRef')
         willEatFood == WillEatFood(head, food)
         snakeBodyToCheck == SnakeBodyToCheck(willEatFood, prevSnake)
         newSnake == <<head>> \o prevSnake
     IN IF checkCollision(head, snakeBodyToCheck)
        THEN /\ gameOver' = TRUE
             /\ snake' = CollisionSnake(prevSnake, head)
             /\ food' = food
             /\ last' = Log("tick", "over", 0, Sentinel, 0, keys, Sentinel)
        ELSE /\ gameOver' = gameOver
             /\ snake' = MovedSnake(newSnake, willEatFood)
             /\ IF willEatFood
                THEN \E r \in PlaceFood(newSnake) :
                       /\ food' = r.food
                       /\ last' = Log("tick", "ate", r.attempts, r.food, 1, keys,
                                      Sentinel)
                ELSE /\ food' = food
                     /\ last' = Log("tick", "moved", 0, Sentinel, 0, keys,
                                    prevSnake[Len(prevSnake)])
  /\ LET e == LevelEffect(Len(snake') - 1, level, intervalDelay)
     IN /\ level' = e.level
        /\ intervalDelay' = e.intervalDelay

\* A tick of the interval while running.  The timeout of resetGame (delay 0)
\* is set before the interval that the render after reset creates (delay
\* intervalDelay), so it fires before the first tick.
TickRun ==
  /\ timers = 0
  /\ MoveSnake

Tick == TickOver \/ TickRun

\* handleKeyPress committing the new direction at once instead of queueing it.
KeyPress_Immediate ==
  \E key \in Keys :
    /\ LET newDirection == NewDirection(key, directionRef)
       IN /\ directionRef' = IF newDirection # Null THEN newDirection ELSE directionRef
          /\ direction' = directionRef'
    /\ keys' = Record(keys, key)
    /\ last' = Log("key", "-", 0, Sentinel, 0, <<>>, Sentinel)
    /\ UNCHANGED <<snake, food, queuedDirectionRef, gameOver, level,
                   intervalDelay, timers>>

\* handleKeyPress: the listener stays registered for the component's life.
KeyPress ==
  \E key \in Keys :
    /\ LET newDirection == NewDirection(key, directionRef)
       IN queuedDirectionRef' =
            IF newDirection # Null THEN newDirection ELSE queuedDirectionRef
    /\ keys' = Record(keys, key)
    /\ last' = Log("key", "-", 0, Sentinel, 0, <<>>, Sentinel)
    /\ UNCHANGED <<snake, food, direction, directionRef, gameOver, level,
                   intervalDelay, timers>>

\* The results of the food loop of resetGame, whose newSnake is INITIAL_SNAKE.
ResetPlacements == PlaceFood(INITIAL_SNAKE)

\* resetGame without the assignment queuedDirectionRef.current = null.
Reset_KeepsQueue ==
  /\ gameOver
  /\ \E r \in ResetPlacements :
       /\ IF ResetFallback(r.attempts)
          THEN /\ food' = Sentinel
               /\ timers' = timers + 1
          ELSE /\ food' = r.food
               /\ timers' = timers
       /\ last' = Log("reset", "-", r.attempts, r.food, 1, keys, Sentinel)
  /\ snake' = INITIAL_SNAKE
  /\ direction' = INITIAL_DIRECTION
  /\ directionRef' = INITIAL_DIRECTION
  /\ queuedDirectionRef' = queuedDirectionRef
  /\ gameOver' = FALSE
  /\ keys' = <<>>
  /\ LET e == LevelEffect(Len(INITIAL_SNAKE) - 1, 1, BASE_SPEED)
     IN /\ level' = e.level
        /\ intervalDelay' = e.intervalDelay

\* resetGame: the onClick of the button rendered only while gameOver.
Reset ==
  /\ gameOver
  /\ \E r \in ResetPlacements :
       /\ IF ResetFallback(r.attempts)
          THEN /\ food' = Sentinel
               /\ timers' = timers + 1
          ELSE /\ food' = r.food
               /\ timers' = timers
       /\ last' = Log("reset", "-", r.attempts, r.food, 1, keys, Sentinel)
  /\ snake' = INITIAL_SNAKE
  /\ direction' = INITIAL_DIRECTION
  /\ directionRef' = INITIAL_DIRECTION
  /\ queuedDirectionRef' = Null
  /\ gameOver' = FALSE
  /\ keys' = <<>>
  /\ LET e == LevelEffect(Len(INITIAL_SNAKE) - 1, 1, BASE_SPEED)
     IN /\ level' = e.level
        /\ intervalDelay' = e.intervalDelay

\* The callback of setTimeout(() => setFood(generateRandomPosition()), 0).
Reroll ==
  /\ timers > 0
  /\ timers' = timers - 1
  /\ \E d \in generateRandomPosition :
       /\ food' = d
       /\ last' = Log("reroll", "-", 0, d, 1, <<>>, food)
  /\ UNCHANGED <<snake, direction, directionRef, queuedDirectionRef, gameOver,
                 level, intervalDelay, keys>>

Next == Tick \/ KeyPress \/ Reset \/ Reroll

Spec == Init /\ [][Next]_vars

TypeOK ==
  /\ food \in Cells \cup {Sentinel}
  /\ directionRef \in Directions
  /\ queuedDirectionRef \in Directions \cup {Null}
  /\ gameOver \in BOOLEAN
  /\ timers \in 0..1
  /\ Len(snake) >= 1

\* ------------------------------------------------------------ claims
Opposite(d) ==
  CASE d = "UP" -> "DOWN"
    [] d = "DOWN" -> "UP"
    [] d = "LEFT" -> "RIGHT"
    [] d = "RIGHT" -> "LEFT"

KeyOf(d) ==
  CASE d = "UP" -> "ArrowUp"
    [] d = "DOWN" -> "ArrowDown"
    [] d = "LEFT" -> "ArrowLeft"
    [] d = "RIGHT" -> "ArrowRight"

\* A step is a tick that runs: moveSnake called while the game is not over.
RunningTick == last'.op = "tick" /\ ~gameOver

\* Before a tick: the cell the head moves to and whether it is the food.
Candidate == MoveHead(snake[1], Committed(queuedDirectionRef, directionRef))

CandidateEats == Candidate = food

\* The last tick completed without ending the game.
TickCompleted == last.op = "tick" /\ last.result \in {"moved", "ate"}

\* The last callback placed food with the retry loop.
Placed == last.op = "reset" \/ (last.op = "tick" /\ last.result = "ate")

\* C1: in every reachable state every entity cell is inside the grid and no
\* two entity cells are equal.
C1_EntityInGridNoDuplicates ==
  /\ \A i \in 1..Len(snake) :
       /\ 0 <= snake[i].x /\ snake[i].x < GRID_SIZE
       /\ 0 <= snake[i].y /\ snake[i].y < GRID_SIZE
  /\ \A i, j \in 1..Len(snake) : i # j => snake[i] # snake[j]

\* A move has just been made by an entity one cell short of the whole grid.
C1_Witness ==
  /\ last.op = "tick" /\ last.result = "moved"
  /\ Len(snake) = GRID_SIZE * GRID_SIZE - 1

\* C2: after every tick that completes without ending the game the food cell
\* differs from every entity cell.
C2_FoodOffEntityAfterTick == TickCompleted => ~OnSnake(food, snake)

\* C3: the direction a tick commits is never the opposite of the direction
\* committed before it, and when the only key pressed since the previous tick
\* is the opposite one the committed direction is unchanged.
C3_NoReversalCommitted ==
  [][RunningTick =>
       /\ directionRef' # Opposite(directionRef)
       /\ keys = <<KeyOf(Opposite(directionRef))>> => directionRef' = directionRef
    ]_vars

\* A tick has run after the opposite key alone was pressed.
C3_Witness ==
  /\ last.op = "tick" /\ last.result = "moved"
  /\ last.window = <<KeyOf(Opposite(directionRef))>>

\* C4: a tick that does not eat and whose candidate head is the tail cell and
\* no other entity cell succeeds: the game goes on and the head is on the
\* former tail cell, the length unchanged.
C4_TailTurnIsFree ==
  [][(/\ RunningTick
      /\ ~CandidateEats
      /\ Candidate = snake[Len(snake)]
      /\ Candidate \notin Range(SliceButLast(snake)))
     =>
     (/\ ~gameOver'
      /\ snake' = <<snake[Len(snake)]>> \o SliceButLast(snake)
      /\ Len(snake') = Len(snake))
    ]_vars

\* The last move put the head on the cell the tail left.
C4_Witness ==
  /\ last.op = "tick" /\ last.result = "moved"
  /\ ~gameOver
  /\ Len(snake) >= 2
  /\ snake[1] = last.vacated

\* The candidate head is fatal: outside the grid, or on an entity cell that is
\* not vacated by this tick.
Fatal ==
  \/ Candidate \notin Cells
  \/ CandidateEats /\ Candidate \in Range(snake)
  \/ ~CandidateEats /\ Candidate \in Range(SliceButLast(snake))

\* C5: a tick with a fatal candidate head sets gameOver and leaves the entity
\* as it was.
C5_FatalMoveFreezesEntity ==
  [][(RunningTick /\ Fatal) => (gameOver' /\ snake' = snake)]_vars

\* The last tick ended the game on an entity cell inside the grid.
C5_Witness ==
  /\ last.op = "tick" /\ last.result = "over"
  /\ gameOver
  /\ MoveHead(snake[1], directionRef) \in Range(snake)

\* C6: a successful tick that eats yields the candidate head followed by the
\* whole previous entity and relocates the food exactly once; one that does
\* not eat yields the candidate head followed by the previous entity without
\* its last cell and relocates nothing.
C6_GrowthAndRelocation ==
  [][(RunningTick /\ ~gameOver') =>
       IF CandidateEats
       THEN /\ snake' = <<Candidate>> \o snake
            /\ Len(snake') = Len(snake) + 1
            /\ last'.setFoodCalls = 1
            /\ food' \in Cells
       ELSE /\ snake' = <<Candidate>> \o SliceButLast(snake)
            /\ Len(snake') = Len(snake)
            /\ last'.setFoodCalls = 0
            /\ food' = food
    ]_vars

\* The last tick ate and the entity has grown to three cells or more.
C6_Witness ==
  /\ last.op = "tick" /\ last.result = "ate"
  /\ Len(snake) >= 3
  /\ last.setFoodCalls = 1

\* C7: once the game is over, ticks and key presses leave the entity, the
\* food, the score, the level, the interval and gameOver unchanged, and
\* gameOver becomes false again only through reset.
C7_OverIsFrozen ==
  [][/\ (gameOver /\ last'.op \in {"tick", "key"}) =>
          UNCHANGED <<snake, food, level, intervalDelay, gameOver>>
     /\ (gameOver /\ ~gameOver') => last'.op = "reset"
    ]_vars

\* A tick has been ignored while the game was over and a direction is queued.
C7_Witness ==
  /\ gameOver
  /\ last.op = "tick" /\ last.result = "noop"
  /\ queuedDirectionRef # Null

\* Every draw of the last placement landed on the entity.
Exhausted ==
  /\ Placed
  /\ last.attempts = MAX_FOOD_ATTEMPTS
  /\ OnSnake(last.draw, snake)

\* C8: whenever a food placement exhausts its budget, in a tick as in reset,
\* the food becomes the sentinel and a deferred re-roll is scheduled.
C8_ExhaustedPlacementFallsBack == Exhausted => (food = Sentinel /\ timers > 0)

\* C9: once the deferred re-roll has been applied the food is a cell of the
\* grid that is no entity cell.
C9_RerollFoodOffEntity ==
  last.op = "reroll" => (food \in Cells /\ ~OnSnake(food, snake))

\* C9 as amended: the re-roll is applied while the entity is still the single
\* initial cell and leaves the food on a cell of the grid; when food and a
\* single-cell entity coincide, the next tick that completes leaves the food
\* off the entity.
C9_RerollInGridThenRestored ==
  [][/\ last'.op = "reroll" =>
          /\ food = Sentinel
          /\ food' \in Cells
          /\ snake' = INITIAL_SNAKE
     /\ (RunningTick /\ ~gameOver' /\ Len(snake) = 1 /\ OnSnake(food, snake)) =>
          ~OnSnake(food', snake')
    ]_vars

\* The re-roll has been applied and the food is on the entity's cell.
C9_Witness == last.op = "reroll" /\ OnSnake(food, snake)

\* C10: every food placement ends after at most MAX_FOOD_ATTEMPTS retries, so
\* a tick and a reset always complete.
C10_PlacementBounded ==
  /\ Placed => last.attempts \in 0..MAX_FOOD_ATTEMPTS
  /\ (~gameOver /\ timers = 0) => ENABLED TickRun
  /\ gameOver => ENABLED Reset

\* The last tick ate the last free cell and its placement used up the budget.
C10_Witness ==
  /\ last.op = "tick" /\ last.result = "ate"
  /\ Len(snake) = GRID_SIZE * GRID_SIZE
  /\ last.attempts = MAX_FOOD_ATTEMPTS

\* The direction an arrow key asks for, Null for any other key.
DirOf(key) ==
  CASE key = "ArrowUp" -> "UP"
    [] key = "ArrowDown" -> "DOWN"
    [] key = "ArrowLeft" -> "LEFT"
    [] key = "ArrowRight" -> "RIGHT"
    [] OTHER -> Null

\* A key press is accepted when it asks for a direction that is not the
\* opposite of the committed one.
Accepted(key, committed) ==
  DirOf(key) # Null /\ DirOf(key) # Opposite(committed)

\* The most recently accepted key press of a recorded window, Null when none.
RECURSIVE LastAccepted(_, _)
LastAccepted(ks, committed) ==
  IF ks = <<>> THEN Null
  ELSE IF Accepted(ks[Len(ks)], committed) THEN DirOf(ks[Len(ks)])
  ELSE LastAccepted(SliceButLast(ks), committed)

\* The key a key press step handled: the one its history gained.
PressedKey(key) == last'.op = "key" /\ keys' = Record(keys, key)

C12_KeyPressOnlyQueues ==
  [][last'.op = "key" =>
       UNCHANGED <<snake, food, direction, directionRef, gameOver, level,
                   intervalDelay, timers>>
    ]_vars

\* A key has been queued while a grown entity is running.
C12_Witness ==
  /\ last.op = "key"
  /\ ~gameOver
  /\ queuedDirectionRef # Null
  /\ Len(snake) >= 2

\* The coordinate of the middle of the grid, where a new game puts the entity.
Center == GRID_SIZE \div 2

\* C13: a reset yields the state of a new game in every field except the food:
\* the entity is the single middle cell, the direction RIGHT, the pending
\* buffer empty, the game-over flag false, the score 0, the level 1 and the
\* interval BASE_SPEED, whatever the state it is asked from.
C13_ResetRestoresInitial ==
  [][last'.op = "reset" =>
       /\ snake' = <<Pos(Center, Center)>>
       /\ direction' = "RIGHT"
       /\ directionRef' = "RIGHT"
       /\ queuedDirectionRef' = Null
       /\ ~gameOver'
       /\ score' = 0
       /\ level' = 1
       /\ intervalDelay' = BASE_SPEED
    ]_vars

\* A reset has been made after a key was pressed on the game-over screen.
C13_Witness ==
  /\ last.op = "reset"
  /\ last.window = <<"ArrowUp">>
  /\ snake = <<Pos(Center, Center)>>
  /\ queuedDirectionRef = Null
  /\ level = 1
  /\ ~gameOver

\* C14: at session start the food is not on the entity's cell.
C14_InitialFoodOffEntity ==
  last.op = "init" => ~OnSnake(food, snake)

\* ------------------------------------------------ the difficulty curve alone
\* The grid of the source, whose cell count bounds the score.
SourceGridSize == 30

\* The scores a game can show: one less than a length the grid can hold.
Scores == 0..(SourceGridSize * SourceGridSize - 1)

\* The levels calculateSpeed is applied to, past MAX_LEVEL to reach its floor.
MaxLevelArg == 15

\* A new game, before any function of the curve is applied.
InitLevels ==
  /\ Init
  /\ food = Pos(0, 0)

\* calculateLevel applied to a score, and calculateSpeed to the level it
\* returns, as the level effect does.
CalculateLevel ==
  \E s \in Scores :
    /\ level' = calculateLevel(s)
    /\ intervalDelay' = calculateSpeed(calculateLevel(s))
    /\ last' = [op |-> "calculateLevel", arg |-> s]
    /\ UNCHANGED <<snake, food, direction, directionRef, queuedDirectionRef,
                   gameOver, timers, keys>>

\* calculateSpeed applied to a level.
CalculateSpeed ==
  \E l \in 1..MaxLevelArg :
    /\ level' = l
    /\ intervalDelay' = calculateSpeed(l)
    /\ last' = [op |-> "calculateSpeed", arg |-> l]
    /\ UNCHANGED <<snake, food, direction, directionRef, queuedDirectionRef,
                   gameOver, timers, keys>>

NextLevels == CalculateLevel \/ CalculateSpeed

SpecLevels == InitLevels /\ [][NextLevels]_vars

\* C15: calculateLevel(score) is min(10, floor(score / 5) + 1), never above
\* MAX_LEVEL and non-decreasing in the score; calculateSpeed(level) is
\* max(50, 200 - 15 * (level - 1)), never below 50 and non-increasing in the
\* level; the interval as a function of the score is non-increasing.
C15_CurveMonotoneAndClamped ==
  [][/\ last'.op = "calculateLevel" =>
          /\ level' = Min(10, last'.arg \div 5 + 1)
          /\ level' <= MAX_LEVEL
          /\ intervalDelay' = Max(50, 200 - 15 * (level' - 1))
          /\ intervalDelay' >= 50
     /\ last'.op = "calculateSpeed" =>
          /\ intervalDelay' = Max(50, 200 - 15 * (last'.arg - 1))
          /\ intervalDelay' >= 50
     /\ (last.op = "calculateLevel" /\ last'.op = "calculateLevel"
           /\ last.arg <= last'.arg) =>
          /\ level <= level'
          /\ intervalDelay >= intervalDelay'
     /\ (last.op = "calculateSpeed" /\ last'.op = "calculateSpeed"
           /\ last.arg <= last'.arg) =>
          intervalDelay >= intervalDelay'
    ]_vars

\* calculateLevel has been applied to a score past the one that reaches
\* MAX_LEVEL.
C15_Witness ==
  /\ last.op = "calculateLevel"
  /\ last.arg > SCORE_PER_LEVEL * MAX_LEVEL
  /\ level = MAX_LEVEL
  /\ intervalDelay = calculateSpeed(MAX_LEVEL)

\* ------------------------------------------------------- claims, continued
\* C16: after every completed tick and after reset, with the level effect
\* applied, the stored level is calculateLevel(entity length - 1) and the
\* stored interval is calculateSpeed(stored level).
C16_LevelAndIntervalFollowScore ==
  (TickCompleted \/ last.op = "reset") =>
    /\ level = calculateLevel(Len(snake) - 1)
    /\ intervalDelay = calculateSpeed(level)

\* A tick has eaten the food that takes the game to level 2.
C16_Witness ==
  /\ last.op = "tick" /\ last.result = "ate"
  /\ Len(snake) - 1 = SCORE_PER_LEVEL
  /\ level = 2
  /\ intervalDelay = BASE_SPEED - SPEED_DECREMENT

\* A tick starts from the single middle cell, moving RIGHT, with the food on
\* the next cell to the right: (15,15) and (16,15) on the grid of the source.
EatingScenario ==
  /\ RunningTick
  /\ snake = <<Pos(Center, Center)>>
  /\ Committed(queuedDirectionRef, directionRef) = "RIGHT"
  /\ food = Pos(Center + 1, Center)

C18_GameOverOnlyByFatalTick ==
  [][(~gameOver /\ gameOver') => (RunningTick /\ Fatal)]_vars

\* A grown entity has ended the game against a wall.
C18_Witness ==
  /\ last.op = "tick" /\ last.result = "over"
  /\ gameOver
  /\ Len(snake) >= 2
  /\ MoveHead(snake[1], directionRef) \notin Cells

\* C19: a tick that moves without eating leaves the food, the score, the level
\* and the interval as they were; the level and the interval change only in a
\* tick that eats or in a reset.
C19_NonEatingTickKeepsScoreAndLevel ==
  [][/\ (RunningTick /\ ~gameOver' /\ ~CandidateEats) =>
          /\ food' = food
          /\ score' = score
          /\ level' = level
          /\ intervalDelay' = intervalDelay
     /\ (level' # level \/ intervalDelay' # intervalDelay) =>
          \/ RunningTick /\ ~gameOver' /\ CandidateEats
          \/ last'.op = "reset"
    ]_vars

\* An entity at level 2 has moved without eating.
C19_Witness ==
  /\ last.op = "tick" /\ last.result = "moved"
  /\ level = 2
  /\ Len(snake) - 1 >= SCORE_PER_LEVEL
  /\ food \in Cells

\* ------------------------------- the first component of src/src/App.tsx
\* This component has no refs: handleKeyPress reads the direction state and
\* sets it at once, moveSnake reads it. directionRef, queuedDirectionRef,
\* timers and keys keep their initial values. last.applied is the direction
\* the most recent tick of the game moved with, "none" before the first.
AppLog(op, result, applied) == [op |-> op, result |-> result, applied |-> applied]

\* moveSnake is inside the relocation loop, which no draw can end.
Hung == last.result = "hang"

AppInit ==
  /\ snake = INITIAL_SNAKE
  /\ food \in generateRandomPosition
  /\ direction = INITIAL_DIRECTION
  /\ gameOver = FALSE
  /\ level = 1
  /\ intervalDelay = BASE_SPEED
  /\ directionRef = INITIAL_DIRECTION
  /\ queuedDirectionRef = Null
  /\ timers = 0
  /\ keys = <<>>
  /\ last = AppLog("init", "-", "none")

\* checkCollision(pos), which reads the snake of the last render.
AppCheckCollision(pos) ==
  \/ pos.x < 0
  \/ pos.x >= GRID_SIZE
  \/ pos.y < 0
  \/ pos.y >= GRID_SIZE
  \/ OnSnake(pos, snake)

\* The cells the relocation loop can leave with: it draws until a draw is off
\* newSnake, with no budget.
AppPlaceFood(newSnake) == {c \in generateRandomPosition : ~OnSnake(c, newSnake)}

\* The switch of handleKeyPress: the direction it sets, Null when it sets none.
AppNewDirection(key, currentDirection) ==
  CASE key = "ArrowUp" /\ currentDirection # "DOWN" -> "UP"
    [] key = "ArrowDown" /\ currentDirection # "UP" -> "DOWN"
    [] key = "ArrowLeft" /\ currentDirection # "RIGHT" -> "LEFT"
    [] key = "ArrowRight" /\ currentDirection # "LEFT" -> "RIGHT"
    [] OTHER -> Null

\* moveSnake called while gameOver: the early return.
AppTickOver ==
  /\ ~Hung
  /\ gameOver
  /\ last' = AppLog("tick", "noop", last.applied)
  /\ UNCHANGED <<snake, food, direction, directionRef, queuedDirectionRef,
                 gameOver, level, intervalDelay, timers, keys>>

\* moveSnake past the early return, with the render and the level effect.
AppMoveSnake ==
  /\ ~Hung
  /\ ~gameOver
  /\ LET head == MoveHead(snake[1], direction)
         newSnake == <<head>> \o snake
     IN IF AppCheckCollision(head)
        THEN /\ gameOver' = TRUE
             /\ last' = AppLog("tick", "over", direction)
             /\ UNCHANGED <<snake, food, level, intervalDelay>>
        ELSE IF WillEatFood(head, food)
        THEN IF AppPlaceFood(newSnake) = {}
             THEN /\ last' = AppLog("tick", "hang", direction)
                  /\ UNCHANGED <<snake, food, gameOver, level, intervalDelay>>
             ELSE /\ snake' = newSnake
                  /\ food' \in AppPlaceFood(newSnake)
                  /\ last' = AppLog("tick", "ate", direction)
                  /\ LET e == LevelEffect(Len(newSnake) - 1, level, intervalDelay)
                     IN /\ level' = e.level
                        /\ intervalDelay' = e.intervalDelay
                  /\ UNCHANGED gameOver
        ELSE /\ snake' = SliceButLast(newSnake)
             /\ last' = AppLog("tick", "moved", direction)
             /\ UNCHANGED <<food, gameOver, level, intervalDelay>>
  /\ UNCHANGED <<direction, directionRef, queuedDirectionRef, timers, keys>>

AppTick == AppTickOver \/ AppMoveSnake

\* handleKeyPress: setDirection at once, tested against the direction state.
AppKeyPress ==
  /\ ~Hung
  /\ \E key \in Keys :
       LET newDirection == AppNewDirection(key, direction)
       IN direction' = IF newDirection # Null THEN newDirection ELSE direction
  /\ last' = AppLog("key", "-", last.applied)
  /\ UNCHANGED <<snake, food, directionRef, queuedDirectionRef, gameOver, level,
                 intervalDelay, timers, keys>>

\* resetGame: the onClick of the button rendered only while gameOver.
AppResetGame ==
  /\ ~Hung
  /\ gameOver
  /\ snake' = INITIAL_SNAKE
  /\ direction' = INITIAL_DIRECTION
  /\ gameOver' = FALSE
  /\ food' \in generateRandomPosition
  /\ LET e == LevelEffect(Len(INITIAL_SNAKE) - 1, 1, BASE_SPEED)
     IN /\ level' = e.level
        /\ intervalDelay' = e.intervalDelay
  /\ last' = AppLog("reset", "-", "none")
  /\ UNCHANGED <<directionRef, queuedDirectionRef, timers, keys>>

AppNext == AppTick \/ AppKeyPress \/ AppResetGame

SpecApp == AppInit /\ [][AppNext]_vars

\* A step is a tick of the component that runs.
AppRunningTick == last'.op = "tick" /\ ~gameOver

\* C20: in the first component of src/src/App.tsx the direction a tick moves
\* with is never the opposite of the direction the previous tick moved with,
\* whatever keys are pressed between the two, so that an entity of length 2 or
\* more never moves its head onto its neck.
C20_AppNoReversalBetweenTicks ==
  [][(AppRunningTick /\ last.applied \in Directions) =>
       /\ direction # Opposite(last.applied)
       /\ Len(snake) >= 2 => MoveHead(snake[1], direction) # snake[2]
    ]_vars

\* Before a tick of the component: the cell the head moves to.
AppCandidate == MoveHead(snake[1], direction)

\* C21: in the first component of src/src/App.tsx the relocation of a tick
\* that eats terminates for every reachable entity, the one that fills the
\* grid included: the tick completes, with the food placed.
C21_AppRelocationTerminates ==
  [][(AppRunningTick /\ ~AppCheckCollision(AppCandidate)
        /\ WillEatFood(AppCandidate, food)) =>
       /\ last'.result = "ate"
       /\ snake' = <<AppCandidate>> \o snake
    ]_vars

\* C22: a tick that ends the game changes only the game-over flag, the
\* committed direction and the pending buffer, a pending direction being
\* consumed and committed; the entity, the food, the score, the level and the
\* interval are as before the tick.
C22_FatalTickFrame ==
  [][(RunningTick /\ gameOver') =>
       /\ snake' = snake
       /\ food' = food
       /\ score' = score
       /\ level' = level
       /\ intervalDelay' = intervalDelay
       /\ timers' = timers
       /\ queuedDirectionRef' = Null
       /\ directionRef' =
            IF queuedDirectionRef # Null THEN queuedDirectionRef ELSE directionRef
       /\ direction' = directionRef'
    ]_vars

\* A tick has ended the game of a grown entity at level 2 with the direction
\* of the one key of its window, which it consumed.
C22_Witness ==
  /\ last.op = "tick" /\ last.result = "over"
  /\ gameOver
  /\ last.window = <<"ArrowUp">>
  /\ directionRef = "UP"
  /\ queuedDirectionRef = Null
  /\ level = 2

\* C23: in reset the food is the sentinel only if every cell drawn by the
\* placement, the last one included, was on the entity; whenever the last draw
\* is a free cell, that cell becomes the food and no re-roll is scheduled.
C23_ResetSentinelOnlyIfAllOccupied ==
  last.op = "reset" =>
    /\ food = Sentinel => OnSnake(last.draw, snake)
    /\ ~OnSnake(last.draw, snake) => (food = last.draw /\ timers = 0)

\* ------------------------------------- the re-roll as an asynchronous event
\* The callbacks of part_000 with the timeout of resetGame free to fire at any
\* later moment: ticks run while it is pending, and so do later resets.
\* The pending timeouts a reset may add to.
MaxTimers == 1

\* The longest entity followed with the re-roll asynchronous.
MaxAsyncLength == 3

\* A tick whenever the interval fires, a re-roll pending or not.
AsyncTickRun == MoveSnake /\ Len(snake') <= MaxAsyncLength

AsyncTick == TickOver \/ AsyncTickRun

\* resetGame, from the button shown while gameOver.

AsyncReset == Reset /\ timers' <= MaxTimers

AsyncNext == AsyncTick \/ KeyPress \/ AsyncReset \/ Reroll

SpecAsync == Init /\ [][AsyncNext]_vars

Abs(n) == IF n < 0 THEN -n ELSE n

Adjacent(a, b) == Abs(a.x - b.x) + Abs(a.y - b.y) = 1

\* C25: in every reachable state each pair of consecutive entity cells is
\* orthogonally adjacent: they differ by exactly 1 in exactly one coordinate.
C25_ConsecutiveCellsAdjacent ==
  \A i \in 1..(Len(snake) - 1) : Adjacent(snake[i], snake[i + 1])

\* A move has just been made by an entity with a bend in its first three cells.
C25_Witness ==
  /\ last.op = "tick" /\ last.result = "moved"
  /\ Len(snake) >= 3
  /\ snake[1].x # snake[3].x
  /\ snake[1].y # snake[3].y

\* C26: between two resets, along any sequence of ticks and key presses, the
\* score and the level never decrease and the interval never increases; the
\* score grows by at most 1 per tick and by nothing otherwise.
C26_MonotoneBetweenResets ==
  [][last'.op # "reset" =>
       /\ score' >= score
       /\ score' <= score + 1
       /\ last'.op # "tick" => score' = score
       /\ level' >= level
       /\ intervalDelay' <= intervalDelay
    ]_vars

\* A tick has eaten at level 2, past the score that reached it.
C26_Witness ==
  /\ last.op = "tick" /\ last.result = "ate"
  /\ Len(snake) - 1 > SCORE_PER_LEVEL
  /\ level = 2
  /\ intervalDelay < BASE_SPEED

====
